---- MODULE Spec2Model ----
(***************************************************************************)
(* Content Writing Assistant backend: the Flask routes of backend/main.py, *)
(* the ContentWritingAgent of backend/agents/content_agent.py and the text *)
(* heuristics at the end of backend/agents/tools.py.                       *)
(*                                                                         *)
(* Python strings are sequences of one-character strings.  Numbers with    *)
(* two decimals (the readability score) are integers counting hundredths.  *)
(***************************************************************************)
EXTENDS Integers, Sequences, FiniteSets, TLC

VARIABLES
    agent,      \* main.py module global: TRUE = ContentWritingAgent, FALSE = None
    pc,         \* position of the request handler: "idle", "awaiting", "done"
    endpoint,   \* route serving the current request
    body,       \* the request body as Flask sees it
    prompt,     \* prompt handed to the model: the PROMPTS key or the method's own prompt
    calls,      \* model.generate_content invocations made for the current request
    reply,      \* what the external model answered to the current request
    resp,       \* the HTTP response: [status, body]
    served,     \* requests this process has answered since it started
    fn,         \* text heuristic applied to (in_text, in_max): "none" before
    in_text,    \* argument text (topic) of the heuristic
    in_max,     \* argument count (max_keywords / max_tags) of the heuristic
    out         \* value the heuristic returned

httpVars == <<agent, pc, endpoint, body, prompt, calls, reply, resp, served>>
textVars == <<fn, in_text, in_max, out>>
vars == <<agent, pc, endpoint, body, prompt, calls, reply, resp, served, fn, in_text, in_max, out>>

(***************************************************************************)
(* Bounds of the model.                                                    *)
(***************************************************************************)
MaxWords == 3       \* topic inputs hold at most this many separated words
MaxCount == 3       \* max_keywords / max_tags inputs range over 0..MaxCount
MaxTokens == 4      \* text inputs of the readability heuristics hold at most this many tokens
MaxRequests == 2    \* the process is followed over at most this many requests

(***************************************************************************)
(* Generic sequence helpers (Python list / str primitives).                *)
(***************************************************************************)
Range(s) == {s[i] : i \in 1..Len(s)}

Max(a, b) == IF a >= b THEN a ELSE b

Min(a, b) == IF a <= b THEN a ELSE b

RECURSIVE Flatten(_)
Flatten(ss) == IF ss = <<>> THEN <<>> ELSE Head(ss) \o Flatten(Tail(ss))

\* str.replace(a, b) for one-character a; b is a string (possibly empty)
RECURSIVE Replace(_, _, _)
Replace(s, a, b) ==
    IF s = <<>> THEN <<>>
    ELSE (IF Head(s) = a THEN b ELSE <<Head(s)>>) \o Replace(Tail(s), a, b)

\* str.split(sep) for one-character sep: empty pieces are kept
RECURSIVE SplitAcc(_, _, _)
SplitAcc(s, sep, cur) ==
    IF s = <<>> THEN <<cur>>
    ELSE IF Head(s) = sep THEN <<cur>> \o SplitAcc(Tail(s), sep, <<>>)
    ELSE SplitAcc(Tail(s), sep, Append(cur, Head(s)))

Split(s, sep) == SplitAcc(s, sep, <<>>)

Whitespace == {" ", "\t", "\n"}

RECURSIVE LStrip(_)
LStrip(s) == IF s /= <<>> /\ Head(s) \in Whitespace THEN LStrip(Tail(s)) ELSE s

RECURSIVE RStrip(_)
RStrip(s) ==
    IF s /= <<>> /\ s[Len(s)] \in Whitespace THEN RStrip(SubSeq(s, 1, Len(s) - 1)) ELSE s

\* str.strip()
Strip(s) == RStrip(LStrip(s))

LowerChar(c) ==
    CASE c = "A" -> "a" [] c = "C" -> "c" [] c = "E" -> "e" [] c = "H" -> "h"
      [] c = "W" -> "w" [] OTHER -> c

\* str.lower()
Lower(s) == [i \in 1..Len(s) |-> LowerChar(s[i])]

(***************************************************************************)
(* tools.py: word, sentence and syllable heuristics, readability.          *)
(***************************************************************************)
_words(text) ==
    SelectSeq(Split(Replace(text, "\n", <<" ">>), " "), LAMBDA w : Strip(w) /= <<>>)

\* the loop of _sentences: returns <<splits, current>> after the scan
RECURSIVE SentenceScan(_, _, _)
SentenceScan(text, splits, current) ==
    IF text = <<>> THEN <<splits, current>>
    ELSE LET cur == Append(current, Head(text))
         IN  IF Head(text) \in {".", "!", "?"}
             THEN SentenceScan(Tail(text),
                               IF Strip(cur) /= <<>> THEN Append(splits, Strip(cur)) ELSE splits,
                               <<>>)
             ELSE SentenceScan(Tail(text), splits, cur)

\* variant of _sentences: the text after the last terminator is dropped
_sentences_NoTail(text) ==
    LET scan == SentenceScan(text, <<>>, <<>>)
    IN  IF scan[1] /= <<>> THEN scan[1] ELSE <<Strip(text)>>

_sentences(text) ==
    LET scan == SentenceScan(text, <<>>, <<>>)
        tail == Strip(scan[2])
        splits == IF tail /= <<>> THEN Append(scan[1], tail) ELSE scan[1]
    IN  IF splits /= <<>> THEN splits ELSE <<Strip(text)>>

Vowels == {"a", "e", "i", "o", "u", "y"}

\* the loop of _syllable_count: vowel-group count of an already lower-cased word
RECURSIVE VowelGroups(_, _)
VowelGroups(word, prev_is_vowel) ==
    IF word = <<>> THEN 0
    ELSE LET is_vowel == Head(word) \in Vowels
         IN  (IF is_vowel /\ ~prev_is_vowel THEN 1 ELSE 0) + VowelGroups(Tail(word), is_vowel)

_syllable_count(w) ==
    LET word == Lower(w)
        count == VowelGroups(word, FALSE)
        count2 == IF word /= <<>> /\ word[Len(word)] = "e" /\ count > 1 THEN count - 1 ELSE count
    IN  Max(count2, 1)

RECURSIVE SumSyllables(_)
SumSyllables(ws) == IF ws = <<>> THEN 0 ELSE _syllable_count(Head(ws)) + SumSyllables(Tail(ws))

\* variant of NoScore: the empty cases are not returned early
NoScore_Never(words, sentences) == FALSE

\* if not words or not sentences: return 0.0
NoScore(words, sentences) == words = <<>> \/ sentences = <<>>

\* what a division by zero leaves in place of a score (ZeroDivisionError)
ZeroDivision == -1

\* variant of ClampRound: the value is rounded but not clamped
ClampRound_Unclamped(num, den) ==
    IF num >= 0 THEN (2 * num + den) \div (2 * den) ELSE 0 - ((den - 2 * num) \div (2 * den))

\* round(max(min(score, 100), 0), 2) in hundredths, for score = num / (100 * den)
ClampRound(num, den) ==
    IF num >= 10000 * den THEN 10000
    ELSE IF num <= 0 THEN 0
    ELSE (2 * num + den) \div (2 * den)

\* Flesch Reading Ease in hundredths.  With w words, s sentences, y syllables
\* 100 * (206.835 - 1.015*(w/s) - 84.6*(y/w)) = num / den for the integers below.
calculate_readability_score(text) ==
    LET words == _words(text)
        sentences == _sentences(text)
    IN  IF NoScore(words, sentences) THEN 0
        ELSE LET syllables == SumSyllables(words)
                 word_count == Len(words)
                 sentence_count == Max(Len(sentences), 1)
                 num == 206835 * sentence_count * word_count
                        - 1015 * word_count * word_count
                        - 84600 * syllables * sentence_count
                 den == 10 * sentence_count * word_count
             IN  IF den = 0 THEN ZeroDivision ELSE ClampRound(num, den)

(***************************************************************************)
(* tools.py: keyword and hashtag derivation, call-to-action phrases.       *)
(***************************************************************************)
DefaultMaxKeywords == 8

DefaultMaxTags == 6

modifiers ==
    << <<"g","u","i","d","e">>, <<"t","i","p","s">>, <<"b","e","s","t">>,
       <<"2","0","2","5">>, <<"h","o","w"," ","t","o">> >>

\* variant of RawParts: the parts keep their case
RawParts_NoLower(topic) ==
    LET parts == Split(Replace(topic, ",", <<" ">>), " ")
    IN  [i \in 1..Len(parts) |-> Strip(parts[i])]

\* raw_parts = [p.strip().lower() for p in topic.replace(',', ' ').split(' ')]
RawParts(topic) ==
    LET parts == Split(Replace(topic, ",", <<" ">>), " ")
    IN  [i \in 1..Len(parts) |-> Lower(Strip(parts[i]))]

\* the first loop: keep parts of at least 3 characters, first occurrence only
RECURSIVE KeywordLoop(_, _)
KeywordLoop(raw_parts, keywords) ==
    IF raw_parts = <<>> THEN keywords
    ELSE LET part == Head(raw_parts)
         IN  IF Len(part) < 3 THEN KeywordLoop(Tail(raw_parts), keywords)
             ELSE IF part \notin Range(keywords)
                  THEN KeywordLoop(Tail(raw_parts), Append(keywords, part))
                  ELSE KeywordLoop(Tail(raw_parts), keywords)

\* augmented = keywords[:] followed by f"{kw} {mod}".strip() for kw, for mod
Augmented(keywords) ==
    keywords \o
    Flatten([i \in 1..Len(keywords) |->
                [j \in 1..Len(modifiers) |-> Strip(keywords[i] \o <<" ">> \o modifiers[j])]])

\* the last loop: append unseen non-empty entries, then test the length and break
RECURSIVE FinalLoop(_, _, _)
FinalLoop(augmented, final, max_keywords) ==
    IF augmented = <<>> THEN final
    ELSE LET kw == Head(augmented)
             final2 == IF kw /= <<>> /\ kw \notin Range(final) THEN Append(final, kw) ELSE final
         IN  IF Len(final2) >= max_keywords THEN final2
             ELSE FinalLoop(Tail(augmented), final2, max_keywords)

generate_seo_keywords(topic, max_keywords) ==
    IF topic = <<>> THEN <<>>
    ELSE FinalLoop(Augmented(KeywordLoop(RawParts(topic), <<>>)), <<>>, max_keywords)

\* variant of HashTag: the keyword is used as it is
HashTag_Verbatim(kw) == kw

\* tag = kw.replace(' ', '')
HashTag(kw) == Replace(kw, " ", <<>>)

\* the loop of extract_hashtags: append unseen non-empty tags, then test and break
RECURSIVE TagLoop(_, _, _)
TagLoop(keywords, tags, max_tags) ==
    IF keywords = <<>> THEN tags
    ELSE LET tag == HashTag(Head(keywords))
             tags2 == IF tag /= <<>> /\ tag \notin Range(tags) THEN Append(tags, tag) ELSE tags
         IN  IF Len(tags2) >= max_tags THEN tags2
             ELSE TagLoop(Tail(keywords), tags2, max_tags)

extract_hashtags(topic, max_tags) ==
    LET keywords == generate_seo_keywords(topic, max_tags * 2)
        tags == TagLoop(keywords, <<>>, max_tags)
    IN  [i \in 1..Len(tags) |-> <<"#">> \o tags[i]]

generate_cta_phrases ==
    <<"Learn more", "Get started today", "Download the guide",
      "Sign up now", "Join the community", "Contact us for a demo">>

(***************************************************************************)
(* Inputs of the text heuristics: topics are words of a small vocabulary   *)
(* joined by the separators the code splits on.                            *)
(***************************************************************************)
Vocabulary ==
    { <<"c","a","t">>,                          \* kept
      <<"C","a","t">>,                          \* equal to "cat" once lower-cased
      <<"t","o">>,                              \* shorter than 3 characters
      <<"c","a","t","g","u","i","d","e">>,      \* equals "cat guide" without its space
      <<"\t","a","t">>,                         \* 2 characters once stripped
      <<>> }                                    \* consecutive or trailing separators

Separators == {" ", ","}

RECURSIVE TopicsOf(_)
TopicsOf(n) ==
    IF n = 0 THEN {<<>>}
    ELSE IF n = 1 THEN Vocabulary
    ELSE {t \o <<s>> \o w : t \in TopicsOf(n - 1), s \in Separators, w \in Vocabulary}

Topics == UNION {TopicsOf(n) : n \in 0..MaxWords}

Counts == 0..MaxCount

(***************************************************************************)
(* JSON values of a request body.  v is always a string: the text of a     *)
(* JSON string, or the literal of a null / boolean / number / list.        *)
(***************************************************************************)
Absent == [t |-> "absent", v |-> ""]         \* the key is not in the object

JNull == [t |-> "null", v |-> "null"]

JTrue == [t |-> "bool", v |-> "true"]

JFalse == [t |-> "bool", v |-> "false"]

JNum(lit) == [t |-> "num", v |-> lit]

JStr(text) == [t |-> "str", v |-> text]

JList(lit) == [t |-> "list", v |-> lit]

Present(x) == x.t /= "absent"

\* Python truth value of a JSON value
Truthy(x) ==
    CASE x.t = "null" -> FALSE
      [] x.t = "bool" -> x.v = "true"
      [] x.t = "num"  -> x.v /= "0"
      [] x.t = "str"  -> x.v /= ""
      [] x.t = "list" -> x.v /= "[]"
      [] OTHER -> FALSE

\* dict.get(key, default)
Get(x, default) == IF Present(x) THEN x ELSE default

\* characters of the strings that reach the text heuristics
Chars(s) ==
    CASE s = "" -> <<>>
      [] s = "to" -> <<"t","o">>
      [] s = "cat tips" -> <<"c","a","t"," ","t","i","p","s">>
      [] s = "Hello. We care!" ->
            <<"H","e","l","l","o","."," ","W","e"," ","c","a","r","e","!">>
      [] s = "[]" -> <<"[","]">>
      [] s = "{}" -> <<"{","}">>
      [] s = "{\"variations\": [\"v\"]}" ->
            <<"{","\"","v","a","r","i","a","t","i","o","n","s","\"",":"," ",
              "[","\"","v","\"","]","}">>

\* json.loads on the model's reply texts: a parsed value, or ok = FALSE (ValueError)
json_loads(text) ==
    CASE text = "[]" -> [ok |-> TRUE, t |-> "list", v |-> <<>>]
      [] text = "{}" -> [ok |-> TRUE, t |-> "dict", v |-> <<>>]
      [] text = "{\"variations\": [\"v\"]}" ->
            [ok |-> TRUE, t |-> "dict", v |-> [variations |-> <<"v">>]]
      [] OTHER -> [ok |-> FALSE, t |-> "none", v |-> <<>>]

\* str.split() without argument: pieces separated by runs of whitespace
RECURSIVE SplitWs(_, _)
SplitWs(s, cur) ==
    IF s = <<>> THEN (IF cur = <<>> THEN <<>> ELSE <<cur>>)
    ELSE IF Head(s) \in Whitespace
         THEN (IF cur = <<>> THEN <<>> ELSE <<cur>>) \o SplitWs(Tail(s), <<>>)
         ELSE SplitWs(Tail(s), Append(cur, Head(s)))

(***************************************************************************)
(* prompts.py: the template table.                                         *)
(***************************************************************************)
valid_types == <<"blog", "social", "email", "product">>

valid_styles == <<"formal", "casual", "technical", "creative">>

\* variant of PROMPTS: one of the sixteen pairs has no entry
PROMPTS_MissingEntry ==
    { "blog_formal", "blog_casual", "blog_technical", "blog_creative",
      "social_formal", "social_casual", "social_technical", "social_creative",
      "email_formal", "email_casual", "email_technical", "email_creative",
      "product_formal", "product_casual", "product_technical",
      "default" }

PROMPTS ==
    { "blog_formal", "blog_casual", "blog_technical", "blog_creative",
      "social_formal", "social_casual", "social_technical", "social_creative",
      "email_formal", "email_casual", "email_technical", "email_creative",
      "product_formal", "product_casual", "product_technical", "product_creative",
      "default" }

\* PROMPTS.get(f"{content_type}_{writing_style}"), else PROMPTS['default']
prompt_template(content_type, writing_style) ==
    LET key == content_type \o "_" \o writing_style
    IN  IF key \in PROMPTS THEN key ELSE "default"

(***************************************************************************)
(* What the external model can answer: the call (or reading response.text) *)
(* raises, or it returns some text.                                        *)
(***************************************************************************)
ReplyTexts == {"Hello. We care!", "", "[]", "{}", "{\"variations\": [\"v\"]}"}

Replies ==
    {[kind |-> "raise", text |-> "", error |-> "429 quota exceeded"]}
    \cup {[kind |-> "text", text |-> t, error |-> ""] : t \in ReplyTexts}

NoReply == [kind |-> "none", text |-> "", error |-> ""]

(***************************************************************************)
(* content_agent.py: ContentWritingAgent.  Each method is given the        *)
(* model's answer rep to its single self.model.generate_content call.      *)
(***************************************************************************)
\* variant of Failure: the exception's message is not passed on
Failure_NoError(e, message) == [success |-> FALSE, error |-> "Unknown error", message |-> message]

\* the except Exception clause of every method
Failure(e, message) == [success |-> FALSE, error |-> e, message |-> message]

NoAttrReplace == "object has no attribute 'replace'"

\* variant of MetaKeywords: the keywords are derived whatever the flag
MetaKeywords_Always(topic, include_seo) ==
    IF topic.t = "str" THEN generate_seo_keywords(Chars(topic.v), DefaultMaxKeywords) ELSE <<>>

\* seo_keywords = generate_seo_keywords(topic) if include_seo else []
MetaKeywords(topic, include_seo) ==
    IF Truthy(include_seo) THEN generate_seo_keywords(Chars(topic.v), DefaultMaxKeywords) ELSE <<>>

\* hashtags = extract_hashtags(topic) if include_hashtags else []
MetaHashtags(topic, include_hashtags) ==
    IF Truthy(include_hashtags) THEN extract_hashtags(Chars(topic.v), DefaultMaxTags) ELSE <<>>

\* cta_phrases = generate_cta_phrases() if include_cta else []
MetaCta(include_cta) == IF Truthy(include_cta) THEN generate_cta_phrases ELSE <<>>

ContentWritingAgent_generate_content(topic, content_type, writing_style, include_seo, include_hashtags, include_cta, target_audience, rep) ==
    IF rep.kind = "raise" THEN Failure(rep.error, "Failed to generate content")
    ELSE IF (Truthy(include_seo) \/ Truthy(include_hashtags)) /\ topic.t /= "str"
         THEN Failure(NoAttrReplace, "Failed to generate content")
    ELSE LET generated_content == rep.text
         IN  [success |-> TRUE,
              content |-> generated_content,
              metadata |->
                 [content_type |-> content_type.v,
                  writing_style |-> writing_style.v,
                  target_audience |-> target_audience.v,
                  word_count |-> Len(SplitWs(Chars(generated_content), <<>>)),
                  character_count |-> Len(Chars(generated_content)),
                  readability_score |-> calculate_readability_score(Chars(generated_content)),
                  seo_keywords |-> MetaKeywords(topic, include_seo),
                  hashtags |-> MetaHashtags(topic, include_hashtags),
                  cta_suggestions |-> MetaCta(include_cta)]]

\* the inner except of analyze_content; content must be a str for the local score
AnalysisFallback(content, rep) ==
    [grammar_issues |-> <<>>,
     tone_analysis |-> rep.text,
     readability_score |-> calculate_readability_score(Chars(content.v)),
     quality_score |-> 75,
     suggestions |-> <<>>,
     overall_assessment |-> "Content analysis completed"]

ContentWritingAgent_analyze_content(content, analysis_type, rep) ==
    IF rep.kind = "raise" THEN Failure(rep.error, "Failed to analyze content")
    ELSE IF json_loads(rep.text).ok
         THEN [success |-> TRUE, analysis |-> json_loads(rep.text).v]
    ELSE IF content.t /= "str" THEN Failure(NoAttrReplace, "Failed to analyze content")
    ELSE [success |-> TRUE, analysis |-> AnalysisFallback(content, rep)]

\* the inner except of generate_variations
VariationsFallback(rep) == [variations |-> <<[variation |-> 1, content |-> rep.text]>>]

\* variant of generate_variations: what the model call raises is not caught
ContentWritingAgent_generate_variations_Uncaught(content, num_variations, variation_type, rep) ==
    IF rep.kind = "raise" THEN [raised |-> rep.error]
    ELSE LET parsed == json_loads(rep.text)
             result == IF parsed.ok THEN parsed.v ELSE VariationsFallback(rep)
         IN  IF parsed.ok /\ parsed.t /= "dict"
             THEN Failure("object has no attribute 'get'", "Failed to generate variations")
             ELSE [success |-> TRUE,
                   variations |-> IF "variations" \in DOMAIN result
                                  THEN result.variations ELSE <<>>]

ContentWritingAgent_generate_variations(content, num_variations, variation_type, rep) ==
    IF rep.kind = "raise" THEN Failure(rep.error, "Failed to generate variations")
    ELSE LET parsed == json_loads(rep.text)
             result == IF parsed.ok THEN parsed.v ELSE VariationsFallback(rep)
         IN  IF parsed.ok /\ parsed.t /= "dict"
             THEN Failure("object has no attribute 'get'", "Failed to generate variations")
             ELSE [success |-> TRUE,
                   variations |-> IF "variations" \in DOMAIN result
                                  THEN result.variations ELSE <<>>]

\* what get_seo_suggestions raises while it builds the prompt, "" when nothing:
\* ', '.join(target_keywords) needs strings, content[:1000] needs a sequence
SeoPromptError(content, target_keywords) ==
    IF Truthy(target_keywords)
       /\ (target_keywords.t \in {"num", "bool"}
           \/ (target_keywords.t = "list" /\ target_keywords.v = "[1]"))
    THEN "can only join an iterable of str"
    ELSE IF content.t \in {"null", "num", "bool"} THEN "object is not subscriptable"
    ELSE ""

\* the inner except of get_seo_suggestions
SeoFallback(rep) ==
    [seo_score |-> 75,
     meta_description |-> "Your content here - optimize for SEO",
     recommendations |-> <<rep.text>>]

ContentWritingAgent_get_seo_suggestions(title, content, target_keywords, rep) ==
    IF rep.kind = "raise" THEN Failure(rep.error, "Failed to get SEO suggestions")
    ELSE [success |-> TRUE,
          seo_suggestions |-> IF json_loads(rep.text).ok THEN json_loads(rep.text).v
                              ELSE SeoFallback(rep)]

(***************************************************************************)
(* Request bodies.  kind "notjson": request.is_json is false; "malformed": *)
(* JSON content type but request.get_json() raises BadRequest; "null" and  *)
(* "array": get_json() returns None or a list of strings; "object": a dict *)
(* whose entries are JSON values.                                          *)
(***************************************************************************)
NoBody == [kind |-> "none"]

NonObjects ==
    {[kind |-> "notjson"], [kind |-> "malformed"], [kind |-> "null"]}
    \cup {[kind |-> "array", elems |-> e] : e \in {{}, {"topic"}, {"content"}}}

Flags == {Absent, JTrue, JFalse}

GenerateBodies ==
    NonObjects \cup
    {[kind |-> "object",
      data |-> [topic |-> t, content_type |-> c, writing_style |-> w, include_seo |-> s,
                include_hashtags |-> h, include_cta |-> a, target_audience |-> u]] :
        t \in {Absent, JStr(""), JStr("cat tips"), JStr("to"), JNum("5")},
        c \in {Absent, JNull, JStr("essay")} \cup {JStr(x) : x \in {"blog", "social", "email", "product"}},
        w \in {Absent, JStr("bogus")} \cup {JStr(x) : x \in {"formal", "casual", "technical", "creative"}},
        s \in Flags, h \in Flags, a \in Flags,
        u \in {Absent, JStr("Developers")}}

Contents == {Absent, JNull, JStr(""), JStr("Hello. We care!"), JNum("5")}

AnalyzeBodies ==
    NonObjects \cup
    {[kind |-> "object", data |-> [content |-> c, analysis_type |-> y]] :
        c \in Contents, y \in {Absent, JStr("grammar")}}

VariationBodies ==
    NonObjects \cup
    {[kind |-> "object", data |-> [content |-> c, num_variations |-> n, variation_type |-> y]] :
        c \in Contents, n \in {Absent, JNum("2")}, y \in {Absent, JStr("length")}}

SeoBodies ==
    NonObjects \cup
    {[kind |-> "object", data |-> [title |-> t, content |-> c, target_keywords |-> k]] :
        t \in {Absent, JStr("Cats")},
        c \in Contents,
        k \in {Absent, JList("[]"), JList("[\"cat\"]"), JList("[1]"), JNum("5")}}

(***************************************************************************)
(* main.py: the routes.  Each route is an operator from the body to either *)
(* a response or the decision to call the agent (which calls the model).   *)
(***************************************************************************)
Response(status, b) == [status |-> status, body |-> b]

NoResp == [status |-> 0, body |-> <<>>]

Respond(status, b) == [do |-> "respond", resp |-> Response(status, b)]

CallAgent == [do |-> "call", resp |-> NoResp]

\* the except Exception clause of a route
RouteError(error, details) == Respond(500, [error |-> error, details |-> details])

NotIterable == "argument of type 'NoneType' is not iterable"

BadIndex == "list indices must be integers or slices, not str"

NoAttrGet == "object has no attribute 'get'"

BadRequest == "400 Bad Request: Failed to decode JSON object"

\* first required field that is not in data or falsy, <<>> when none
MissingFields(data, required_fields) ==
    SelectSeq(required_fields, LAMBDA field : ~Present(data[field]) \/ ~Truthy(data[field]))

\* variant of InList: any string passes
InList_AnyString(x, valid) == x.t = "str"

\* data[field] in valid: only a string can equal an entry
InList(x, valid) == x.t = "str" /\ x.v \in Range(valid)

required_fields == <<"topic", "content_type", "writing_style">>

\* variant of AgentMissing: the handle is not looked at
AgentMissing_Never == FALSE

\* if not agent
AgentMissing == ~agent

generate_content_route(b) ==
    IF b.kind = "notjson" THEN Respond(400, [error |-> "Request must be JSON"])
    ELSE IF b.kind = "malformed" THEN RouteError("Failed to generate content", BadRequest)
    ELSE IF b.kind = "null" THEN RouteError("Failed to generate content", NotIterable)
    ELSE IF b.kind = "array"
         THEN IF "topic" \notin b.elems
              THEN Respond(400, [error |-> "Missing required field: topic"])
              ELSE RouteError("Failed to generate content", BadIndex)
    ELSE IF MissingFields(b.data, required_fields) /= <<>>
         THEN Respond(400, [error |-> "Missing required field: "
                                       \o Head(MissingFields(b.data, required_fields))])
    ELSE IF ~InList(b.data.content_type, valid_types)
         THEN Respond(400, [error |->
                  "Invalid content_type. Must be one of: blog, social, email, product"])
    ELSE IF ~InList(b.data.writing_style, valid_styles)
         THEN Respond(400, [error |->
                  "Invalid writing_style. Must be one of: formal, casual, technical, creative"])
    ELSE IF AgentMissing THEN Respond(500, [error |-> "Agent not initialized. Check API key."])
    ELSE CallAgent

analyze_content_route(b) ==
    IF b.kind = "notjson" THEN Respond(400, [error |-> "Request must be JSON"])
    ELSE IF b.kind = "malformed" THEN RouteError("Failed to analyze content", BadRequest)
    ELSE IF b.kind = "null" THEN RouteError("Failed to analyze content", NotIterable)
    ELSE IF b.kind = "array"
         THEN IF "content" \notin b.elems
              THEN Respond(400, [error |-> "Missing required field: content"])
              ELSE RouteError("Failed to analyze content", BadIndex)
    ELSE IF ~Present(b.data.content) \/ ~Truthy(b.data.content)
         THEN Respond(400, [error |-> "Missing required field: content"])
    ELSE IF AgentMissing THEN Respond(500, [error |-> "Agent not initialized"])
    ELSE CallAgent

generate_variations_route(b) ==
    IF b.kind = "notjson" THEN Respond(400, [error |-> "Request must be JSON"])
    ELSE IF b.kind = "malformed" THEN RouteError("Failed to generate variations", BadRequest)
    ELSE IF b.kind = "null" THEN RouteError("Failed to generate variations", NotIterable)
    ELSE IF b.kind = "array" /\ "content" \notin b.elems
         THEN Respond(400, [error |-> "Missing required field: content"])
    ELSE IF b.kind = "object" /\ ~Present(b.data.content)
         THEN Respond(400, [error |-> "Missing required field: content"])
    ELSE IF AgentMissing THEN Respond(500, [error |-> "Agent not initialized"])
    ELSE IF b.kind = "array" THEN RouteError("Failed to generate variations", NoAttrGet)
    ELSE CallAgent

\* get_seo_suggestions catches inside the agent what building the prompt raises
get_seo_suggestions_route(b) ==
    IF b.kind = "notjson" THEN Respond(400, [error |-> "Request must be JSON"])
    ELSE IF b.kind = "malformed" THEN RouteError("Failed to get SEO suggestions", BadRequest)
    ELSE IF AgentMissing THEN Respond(500, [error |-> "Agent not initialized"])
    ELSE IF b.kind \in {"null", "array"} THEN RouteError("Failed to get SEO suggestions", NoAttrGet)
    ELSE IF SeoPromptError(Get(b.data.content, JStr("")), Get(b.data.target_keywords, JList("[]"))) /= ""
         THEN Respond(200, Failure(SeoPromptError(Get(b.data.content, JStr("")),
                                                  Get(b.data.target_keywords, JList("[]"))),
                                   "Failed to get SEO suggestions"))
    ELSE CallAgent

(***************************************************************************)
(* The server.  One request is followed from its arrival to its response;  *)
(* a route runs up to the blocking model call in one step and from the     *)
(* model's answer to the response in another.                              *)
(***************************************************************************)
NoPrompt == ""

IdleText == fn = "none" /\ in_text = <<>> /\ in_max = 0 /\ out = <<>>

IdleHttp ==
    /\ pc = "idle" /\ endpoint = "none" /\ body = NoBody /\ prompt = NoPrompt
    /\ calls = 0 /\ reply = NoReply /\ resp = NoResp /\ served = 0

\* main.py lines 20-26: the constructor returned, or raised and agent = None
Init == agent \in BOOLEAN /\ IdleHttp /\ IdleText

\* variant of Start: taking a request sets the agent handle again
Start_Reinit(ep, b, r, p) ==
    /\ pc = "idle"
    /\ served < MaxRequests
    /\ endpoint' = ep
    /\ body' = b
    /\ reply' = NoReply
    /\ IF r.do = "call"
       THEN pc' = "awaiting" /\ calls' = calls + 1 /\ prompt' = p /\ resp' = NoResp
       ELSE pc' = "done" /\ calls' = calls /\ prompt' = NoPrompt /\ resp' = r.resp
    /\ agent' = TRUE
    /\ UNCHANGED <<served, textVars>>

\* the route decided r for body b; p is the prompt of the call it makes
Start(ep, b, r, p) ==
    /\ pc = "idle"
    /\ served < MaxRequests
    /\ endpoint' = ep
    /\ body' = b
    /\ reply' = NoReply
    /\ IF r.do = "call"
       THEN pc' = "awaiting" /\ calls' = calls + 1 /\ prompt' = p /\ resp' = NoResp
       ELSE pc' = "done" /\ calls' = calls /\ prompt' = NoPrompt /\ resp' = r.resp
    /\ UNCHANGED <<agent, served, textVars>>

\* the error string of the except Exception clause of the route of ep
route_error(ep) ==
    CASE ep = "generate-content" -> "Failed to generate content"
      [] ep = "analyze-content" -> "Failed to analyze content"
      [] ep = "generate-variations" -> "Failed to generate variations"
      [] ep = "get-seo-suggestions" -> "Failed to get SEO suggestions"

\* the model answered rep and the agent method returned result, or raised
\* result.raised into the route's except Exception clause
Finish(ep, rep, result) ==
    /\ pc = "awaiting"
    /\ endpoint = ep
    /\ reply' = rep
    /\ resp' = IF "raised" \in DOMAIN result
               THEN RouteError(route_error(ep), result.raised).resp
               ELSE Response(200, result)
    /\ pc' = "done"
    /\ UNCHANGED <<agent, endpoint, body, prompt, calls, served, textVars>>

health_check ==
    /\ pc = "idle"
    /\ served < MaxRequests
    /\ pc' = "done"
    /\ endpoint' = "health"
    /\ resp' = Response(200, [status |-> "ok",
                              message |-> "Content Writing Assistant API is running!"])
    /\ UNCHANGED <<agent, body, prompt, calls, reply, served, textVars>>

not_found ==
    /\ pc = "idle"
    /\ served < MaxRequests
    /\ pc' = "done"
    /\ endpoint' = "unknown"
    /\ resp' = Response(404, [error |-> "Endpoint not found"])
    /\ UNCHANGED <<agent, body, prompt, calls, reply, served, textVars>>

generate_content ==
    /\ pc = "idle"
    /\ \E b \in GenerateBodies :
        LET r == generate_content_route(b)
        IN  Start("generate-content", b, r,
                  IF r.do = "call"
                  THEN prompt_template(b.data.content_type.v, b.data.writing_style.v)
                  ELSE NoPrompt)

generate_content_return ==
    /\ pc = "awaiting"
    /\ \E rep \in Replies :
        Finish("generate-content", rep,
               ContentWritingAgent_generate_content(
                   body.data.topic, body.data.content_type, body.data.writing_style,
                   Get(body.data.include_seo, JTrue),
                   Get(body.data.include_hashtags, JTrue),
                   Get(body.data.include_cta, JTrue),
                   Get(body.data.target_audience, JStr("General audience")),
                   rep))

analyze_content ==
    /\ pc = "idle"
    /\ \E b \in AnalyzeBodies :
        Start("analyze-content", b, analyze_content_route(b), "analyze")

analyze_content_return ==
    /\ pc = "awaiting"
    /\ \E rep \in Replies :
        Finish("analyze-content", rep,
               ContentWritingAgent_analyze_content(
                   body.data.content, Get(body.data.analysis_type, JStr("all")), rep))

generate_variations ==
    /\ pc = "idle"
    /\ \E b \in VariationBodies :
        Start("generate-variations", b, generate_variations_route(b), "variations")

generate_variations_return ==
    /\ pc = "awaiting"
    /\ \E rep \in Replies :
        Finish("generate-variations", rep,
               ContentWritingAgent_generate_variations(
                   body.data.content, Get(body.data.num_variations, JNum("3")),
                   Get(body.data.variation_type, JStr("tone")), rep))

get_seo_suggestions ==
    /\ pc = "idle"
    /\ \E b \in SeoBodies :
        Start("get-seo-suggestions", b, get_seo_suggestions_route(b), "seo")

get_seo_suggestions_return ==
    /\ pc = "awaiting"
    /\ \E rep \in Replies :
        Finish("get-seo-suggestions", rep,
               ContentWritingAgent_get_seo_suggestions(
                   Get(body.data.title, JStr("")), Get(body.data.content, JStr("")),
                   Get(body.data.target_keywords, JList("[]")), rep))

\* the response leaves and the next request can be taken
send_response ==
    /\ pc = "done"
    /\ pc' = "idle" /\ endpoint' = "none" /\ body' = NoBody /\ prompt' = NoPrompt
    /\ calls' = 0 /\ reply' = NoReply /\ resp' = NoResp
    /\ served' = served + 1
    /\ UNCHANGED <<agent, textVars>>

Next ==
    \/ health_check
    \/ not_found
    \/ generate_content
    \/ generate_content_return
    \/ analyze_content
    \/ analyze_content_return
    \/ generate_variations
    \/ generate_variations_return
    \/ get_seo_suggestions
    \/ get_seo_suggestions_return
    \/ send_response

Spec == Init /\ [][Next]_vars

(***************************************************************************)
(* The text heuristics on their own: an input is drawn, one function is    *)
(* applied to it.                                                          *)
(***************************************************************************)
InitText ==
    /\ agent = FALSE /\ IdleHttp
    /\ fn = "none" /\ in_text \in Topics /\ in_max \in Counts /\ out = <<>>

apply_generate_seo_keywords ==
    /\ fn = "none"
    /\ fn' = "generate_seo_keywords"
    /\ out' = generate_seo_keywords(in_text, in_max)
    /\ UNCHANGED <<httpVars, in_text, in_max>>

apply_extract_hashtags ==
    /\ fn = "none"
    /\ fn' = "extract_hashtags"
    /\ out' = extract_hashtags(in_text, in_max)
    /\ UNCHANGED <<httpVars, in_text, in_max>>

NextText == apply_generate_seo_keywords \/ apply_extract_hashtags

SpecText == InitText /\ [][NextText]_vars

(***************************************************************************)
(* The readability heuristics on their own.  Texts are sequences of a few  *)
(* tokens: words of one and three syllables, whitespace and terminators.   *)
(***************************************************************************)
TextTokens ==
    { <<"a">>, <<"W","e">>, <<"b","a","n","a","n","a">>,
      <<" ">>, <<"\n">>, <<"\t">>, <<".">>, <<"!">>, <<"?">> }

RECURSIVE TextsOf(_)
TextsOf(n) ==
    IF n = 0 THEN {<<>>}
    ELSE {t \o k : t \in TextsOf(n - 1), k \in TextTokens}

HelloWorld ==
    <<"H","e","l","l","o","."," ","W","o","r","l","d","!"," ",
      "H","o","w"," ","a","r","e"," ","y","o","u","?">>

Texts == UNION {TextsOf(n) : n \in 0..MaxTokens} \cup {HelloWorld}

InitRead ==
    /\ agent = FALSE /\ IdleHttp
    /\ fn = "none" /\ in_text \in Texts /\ in_max = 0 /\ out = <<>>

apply_calculate_readability_score ==
    /\ fn = "none"
    /\ fn' = "calculate_readability_score"
    /\ out' = calculate_readability_score(in_text)
    /\ UNCHANGED <<httpVars, in_text, in_max>>

apply__sentences ==
    /\ fn = "none"
    /\ fn' = "_sentences"
    /\ out' = _sentences(in_text)
    /\ UNCHANGED <<httpVars, in_text, in_max>>

NextRead == apply_calculate_readability_score \/ apply__sentences

SpecRead == InitRead /\ [][NextRead]_vars

(***************************************************************************)
(* Properties.                                                             *)
(***************************************************************************)
PostEndpoints ==
    {"generate-content", "analyze-content", "generate-variations", "get-seo-suggestions"}

\* the body is a JSON object whose content_type is not one of the four types
InvalidContentType(b) ==
    /\ b.kind = "object"
    /\ ~(b.data.content_type.t = "str"
         /\ b.data.content_type.v \in {"blog", "social", "email", "product"})

\* the body is a JSON object with a non-empty topic, a content type and a style
ValidGenerate(b) ==
    /\ b.kind = "object"
    /\ Present(b.data.topic) /\ Truthy(b.data.topic)
    /\ b.data.content_type.t = "str"
    /\ b.data.content_type.v \in {"blog", "social", "email", "product"}
    /\ b.data.writing_style.t = "str"
    /\ b.data.writing_style.v \in {"formal", "casual", "technical", "creative"}

\* C1: a generate-content request whose JSON object carries a content_type
\* outside blog/social/email/product is answered 400, with the agent set or
\* unset, and the model is never called for it.
C1_InvalidTypeRejected ==
    (endpoint = "generate-content" /\ InvalidContentType(body))
        => (pc = "done" /\ resp.status = 400 /\ calls = 0)

C1_Witness ==
    /\ endpoint = "generate-content" /\ pc = "done" /\ agent
    /\ body.kind = "object"
    /\ body.data.topic = JStr("cat tips")
    /\ body.data.content_type = JStr("essay")
    /\ body.data.writing_style = JStr("formal")
    /\ resp.status = 400

\* C2: a generate-content request with valid topic, content_type and
\* writing_style made while the agent is unset is answered 500 with a body
\* that holds nothing but the explanatory error string, without a model call.
C2_UnsetAgentIs500 ==
    (endpoint = "generate-content" /\ ValidGenerate(body) /\ ~agent)
        => /\ pc = "done"
           /\ resp.status = 500
           /\ DOMAIN resp.body = {"error"}
           /\ resp.body.error = "Agent not initialized. Check API key."
           /\ calls = 0

C2_Witness ==
    /\ endpoint = "generate-content" /\ pc = "done" /\ ~agent
    /\ ValidGenerate(body)
    /\ resp.status = 500

\* C3 as stated: when the model call raises during generate-content the
\* response has status 500 and carries the error message.
C3_RaiseIs500 ==
    (endpoint = "generate-content" /\ pc = "done" /\ reply.kind = "raise")
        => (resp.status = 500 /\ resp.body.error = reply.error)

\* C3 amended: when the model call raises during generate-content the
\* response has status 200 and its body is the failure result success:false,
\* error: the exception message, message: "Failed to generate content".
C3_RaiseIsTaggedFailure ==
    (endpoint = "generate-content" /\ pc = "done" /\ reply.kind = "raise")
        => /\ resp.status = 200
           /\ resp.body = [success |-> FALSE, error |-> reply.error,
                           message |-> "Failed to generate content"]

C3_Witness ==
    /\ endpoint = "generate-content" /\ pc = "done" /\ reply.kind = "raise"
    /\ reply.error = "429 quota exceeded" /\ calls = 1

\* the request got past the route's field validation
PassesValidation(ep, b) ==
    /\ b.kind = "object"
    /\ CASE ep = "generate-content" -> ValidGenerate(b)
         [] ep = "analyze-content" -> Present(b.data.content) /\ Truthy(b.data.content)
         [] ep = "generate-variations" -> Present(b.data.content)
         [] OTHER -> TRUE

\* C4: for every request to a POST endpoint the model is called at most once:
\* exactly once when the request passes validation and the agent is set, and
\* not at all when it is rejected with 400 or the agent is unset.
C4_ExactlyOneCall ==
    /\ calls <= 1
    /\ (pc = "done" /\ endpoint \in PostEndpoints)
        => /\ (resp.status = 400 \/ ~agent) => calls = 0
           /\ (PassesValidation(endpoint, body) /\ agent) => calls = 1

SecondaryEndpoints == {"analyze-content", "generate-variations", "get-seo-suggestions"}

\* C5: in the three secondary operations, whenever the model returns text the
\* operation returns success:true, whatever the text is.
C5_TextAlwaysSucceeds ==
    (endpoint \in SecondaryEndpoints /\ pc = "done" /\ reply.kind = "text")
        => resp.body.success = TRUE

\* C6: when the model's reply to a secondary operation is not JSON, the
\* fallback object carries every field of the endpoint's documented shape.
C6_FallbackWellFormed ==
    (endpoint \in SecondaryEndpoints /\ pc = "done" /\ reply.kind = "text"
     /\ ~json_loads(reply.text).ok /\ resp.body.success)
        => CASE endpoint = "analyze-content" ->
                    /\ DOMAIN resp.body.analysis =
                          {"grammar_issues", "tone_analysis", "readability_score",
                           "quality_score", "suggestions", "overall_assessment"}
                    /\ resp.body.analysis.readability_score =
                          calculate_readability_score(Chars(body.data.content.v))
             [] endpoint = "get-seo-suggestions" ->
                    DOMAIN resp.body.seo_suggestions =
                          {"seo_score", "keyword_optimization", "meta_description",
                           "heading_optimization", "internal_links", "image_alt_text",
                           "recommendations"}
             [] OTHER ->
                    resp.body.variations = <<[variation |-> 1, content |-> reply.text]>>

\* the generate request succeeded
GenerateSucceeded ==
    /\ endpoint = "generate-content" /\ pc = "done"
    /\ resp.status = 200 /\ resp.body.success

\* C7: in every successful generate result seo_keywords is empty when
\* include_seo is false, hashtags is empty when include_hashtags is false and
\* cta_suggestions is empty when include_cta is false; an omitted flag gives
\* what the flag true gives.
C7_FlagsGateMetadata ==
    GenerateSucceeded =>
        LET d == body.data
            m == resp.body.metadata
        IN  /\ d.include_seo = JFalse => m.seo_keywords = <<>>
            /\ d.include_hashtags = JFalse => m.hashtags = <<>>
            /\ d.include_cta = JFalse => m.cta_suggestions = <<>>
            /\ d.include_seo \in {Absent, JTrue} =>
                   m.seo_keywords = generate_seo_keywords(Chars(d.topic.v), 8)
            /\ d.include_hashtags \in {Absent, JTrue} =>
                   m.hashtags = extract_hashtags(Chars(d.topic.v), 6)
            /\ d.include_cta \in {Absent, JTrue} => Len(m.cta_suggestions) = 6

C7_Witness ==
    /\ GenerateSucceeded
    /\ body.data.topic = JStr("cat tips")
    /\ body.data.include_seo = JFalse
    /\ body.data.include_hashtags = Absent
    /\ body.data.include_cta = JFalse
    /\ resp.body.metadata.seo_keywords = <<>>
    /\ Len(resp.body.metadata.hashtags) = 6

\* C8: generate_seo_keywords never returns more than max_keywords entries,
\* for every topic and every max_keywords >= 0.
C8_AtMostMaxKeywords ==
    fn = "generate_seo_keywords" => Len(out) <= in_max

NoDuplicates(seq) == \A i, j \in 1..Len(seq) : seq[i] = seq[j] => i = j

\* seq without the later occurrences of an entry
RECURSIVE Distinct(_)
Distinct(seq) ==
    IF seq = <<>> THEN <<>>
    ELSE LET front == Distinct(SubSeq(seq, 1, Len(seq) - 1))
             last == seq[Len(seq)]
         IN  IF last \in Range(front) THEN front ELSE Append(front, last)

\* C9: extract_hashtags returns at most max_tags hashtags, none twice: the
\* first max_tags distinct space-stripped entries of
\* generate_seo_keywords(topic, 2*max_tags), each prefixed with '#'.
C9_HashtagsAreFirstDistinct ==
    fn = "extract_hashtags" =>
        LET keywords == generate_seo_keywords(in_text, 2 * in_max)
            stripped == [i \in 1..Len(keywords) |->
                            SelectSeq(keywords[i], LAMBDA c : c /= " ")]
            distinct == Distinct(stripped)
            first == SubSeq(distinct, 1, Min(in_max, Len(distinct)))
        IN  /\ Len(out) <= in_max
            /\ NoDuplicates(out)
            /\ out = [i \in 1..Len(first) |-> <<"#">> \o first[i]]

\* C10: every string extract_hashtags returns starts with '#' and holds no
\* space character.
C10_HashtagsPrefixedNoSpace ==
    fn = "extract_hashtags" =>
        \A i \in 1..Len(out) : Head(out[i]) = "#" /\ " " \notin Range(out[i])

\* a returned hashtag that comes from a keyword with a space in it
C10_Witness ==
    /\ fn = "extract_hashtags"
    /\ \E i \in 1..Len(out) :
        \E kw \in Range(generate_seo_keywords(in_text, 2 * in_max)) :
            /\ " " \in Range(kw)
            /\ out[i] = <<"#">> \o SelectSeq(kw, LAMBDA c : c /= " ")

\* C11: for every text calculate_readability_score returns a value in
\* [0, 100] (0..10000 hundredths): the Flesch value is clamped at both ends,
\* also when it is above 100 (one short word) or below 0 (polysyllabic words).
C11_ScoreInRange ==
    fn = "calculate_readability_score" => (out >= 0 /\ out <= 10000)

\* one three-syllable word: 206.835 - 1.015 - 3 * 84.6 is below 0
C11_Witness ==
    /\ fn = "calculate_readability_score"
    /\ in_text = <<"b","a","n","a","n","a">>
    /\ out = 0

WhitespaceOnly(text) == \A i \in 1..Len(text) : text[i] \in {" ", "\n", "\t"}

\* C12: calculate_readability_score returns 0 for the empty text and for
\* every text made only of whitespace, and no input makes it divide by zero.
C12_BlankScoresZero ==
    fn = "calculate_readability_score" =>
        /\ out /= ZeroDivision
        /\ WhitespaceOnly(in_text) => out = 0

C12_Witness ==
    /\ fn = "calculate_readability_score"
    /\ in_text = <<" ", "\n", "\t">>
    /\ out = 0

Terminators == {".", "!", "?"}

\* number of terminators in text, plus one if something other than whitespace
\* follows the last of them
SentenceSum(text) ==
    LET ends == {i \in 1..Len(text) : text[i] \in Terminators}
        last == IF ends = {} THEN 0 ELSE CHOOSE i \in ends : \A j \in ends : j <= i
    IN  Cardinality(ends)
        + (IF \E j \in (last + 1)..Len(text) : text[j] \notin {" ", "\n", "\t"} THEN 1 ELSE 0)

Trimmed(sentence) ==
    sentence = <<>>
    \/ (Head(sentence) \notin {" ", "\n", "\t"}
        /\ sentence[Len(sentence)] \notin {" ", "\n", "\t"})

\* C18 as stated: the sentence splitter returns SentenceSum(text) sentences,
\* exactly one when that sum is zero, and every returned sentence is trimmed
\* and non-empty.
C18_SentencesNonEmpty ==
    fn = "_sentences" =>
        /\ Len(out) = (IF SentenceSum(in_text) = 0 THEN 1 ELSE SentenceSum(in_text))
        /\ \A i \in 1..Len(out) : Trimmed(out[i]) /\ out[i] /= <<>>

\* C18 amended: the splitter returns SentenceSum(text) sentences, each trimmed
\* and non-empty; when that sum is zero (the text is empty or only whitespace)
\* it returns exactly one sentence, the empty string.
C18_SentenceCount ==
    fn = "_sentences" =>
        IF SentenceSum(in_text) = 0 THEN out = << <<>> >>
        ELSE /\ Len(out) = SentenceSum(in_text)
             /\ \A i \in 1..Len(out) : Trimmed(out[i]) /\ out[i] /= <<>>

C18_Witness ==
    /\ fn = "_sentences"
    /\ in_text = HelloWorld
    /\ Len(out) = 3

\* the pieces of topic between spaces and commas
RECURSIVE TokenSplit(_, _)
TokenSplit(s, cur) ==
    IF s = <<>> THEN <<cur>>
    ELSE IF Head(s) \in {" ", ","} THEN <<cur>> \o TokenSplit(Tail(s), <<>>)
    ELSE TokenSplit(Tail(s), Append(cur, Head(s)))

\* the distinct lower-cased pieces of at least 3 characters, in first-seen order
LiteralTokens(topic) ==
    LET pieces == TokenSplit(topic, <<>>)
    IN  Distinct(SelectSeq([i \in 1..Len(pieces) |-> Lower(pieces[i])],
                           LAMBDA t : Len(t) >= 3))

\* the same with every piece first stripped of the whitespace around it
StrippedTokens(topic) ==
    LET pieces == TokenSplit(topic, <<>>)
    IN  Distinct(SelectSeq([i \in 1..Len(pieces) |-> Lower(Strip(pieces[i]))],
                           LAMBDA t : Len(t) >= 3))

\* the tokens, then each token joined with guide, tips, best, 2025, how to
KeywordSequence(tokens) ==
    LET mods == << <<"g","u","i","d","e">>, <<"t","i","p","s">>, <<"b","e","s","t">>,
                   <<"2","0","2","5">>, <<"h","o","w"," ","t","o">> >>
    IN  tokens \o [n \in 1..(5 * Len(tokens)) |->
                      tokens[((n - 1) \div 5) + 1] \o <<" ">> \o mods[((n - 1) % 5) + 1]]

IsPrefix(a, b) == Len(a) <= Len(b) /\ a = SubSeq(b, 1, Len(a))

\* the part of a keyword before its first space
RECURSIVE FirstWord(_)
FirstWord(kw) ==
    IF kw = <<>> \/ Head(kw) = " " THEN <<>> ELSE <<Head(kw)>> \o FirstWord(Tail(kw))

\* C17 as stated: the list generate_seo_keywords returns is a duplicate-free
\* prefix of the distinct lower-cased topic tokens of at least 3 characters
\* (split on spaces and commas) followed by their combinations with the five
\* modifiers; no shorter token appears; no such token gives the empty list.
C17_KeywordsFromLiteralTokens ==
    fn = "generate_seo_keywords" =>
        /\ IsPrefix(out, KeywordSequence(LiteralTokens(in_text)))
        /\ NoDuplicates(out)
        /\ \A i \in 1..Len(out) : Len(FirstWord(out[i])) >= 3
        /\ LiteralTokens(in_text) = <<>> => out = <<>>

\* C17 amended: the same, the tokens being the pieces between spaces and
\* commas once stripped of surrounding whitespace and lower-cased, and their
\* length being counted after the stripping.
C17_KeywordsFromStrippedTokens ==
    fn = "generate_seo_keywords" =>
        /\ IsPrefix(out, KeywordSequence(StrippedTokens(in_text)))
        /\ NoDuplicates(out)
        /\ \A i \in 1..Len(out) : Len(FirstWord(out[i])) >= 3
        /\ StrippedTokens(in_text) = <<>> => out = <<>>

\* "Cat,catguide to" with max_keywords 3: a repeated-case token, a short one
C17_Witness ==
    /\ fn = "generate_seo_keywords"
    /\ in_text = <<"C","a","t",",","c","a","t","g","u","i","d","e"," ","t","o">>
    /\ in_max = 3
    /\ out = << <<"c","a","t">>, <<"c","a","t","g","u","i","d","e">>,
                <<"c","a","t"," ","g","u","i","d","e">> >>

\* C13: every non-JSON body sent to one of the four POST endpoints, whether it
\* lacks the JSON content type or carries it and cannot be parsed, is answered
\* 400 and never 500, before any validation and without a model call.
C13_NonJsonIs400 ==
    (pc = "done" /\ endpoint \in PostEndpoints /\ body.kind \in {"notjson", "malformed"})
        => (resp.status = 400 /\ calls = 0)

\* the body is a JSON object whose content is absent or the empty string
ContentAbsentOrEmpty(b) ==
    b.kind = "object" /\ b.data.content \in {Absent, JStr("")}

\* C14: analyze-content and generate-variations apply the same presence check
\* to content: each answers 400, without a model call and with the agent set
\* or unset, every request whose content is absent or empty.
C14_SameContentCheck ==
    (pc = "done" /\ endpoint \in {"analyze-content", "generate-variations"}
     /\ ContentAbsentOrEmpty(body))
        => (resp.status = 400 /\ calls = 0)

\* what the route of ep decides for body b
HandlerRoute(ep, b) ==
    CASE ep = "generate-content" -> generate_content_route(b)
      [] ep = "analyze-content" -> analyze_content_route(b)
      [] ep = "generate-variations" -> generate_variations_route(b)
      [] ep = "get-seo-suggestions" -> get_seo_suggestions_route(b)

\* what the agent method behind ep returns for body b and model answer rep
HandlerResult(ep, b, rep) ==
    CASE ep = "generate-content" ->
            ContentWritingAgent_generate_content(
                b.data.topic, b.data.content_type, b.data.writing_style,
                Get(b.data.include_seo, JTrue), Get(b.data.include_hashtags, JTrue),
                Get(b.data.include_cta, JTrue),
                Get(b.data.target_audience, JStr("General audience")), rep)
      [] ep = "analyze-content" ->
            ContentWritingAgent_analyze_content(
                b.data.content, Get(b.data.analysis_type, JStr("all")), rep)
      [] ep = "generate-variations" ->
            ContentWritingAgent_generate_variations(
                b.data.content, Get(b.data.num_variations, JNum("3")),
                Get(b.data.variation_type, JStr("tone")), rep)
      [] ep = "get-seo-suggestions" ->
            ContentWritingAgent_get_seo_suggestions(
                Get(b.data.title, JStr("")), Get(b.data.content, JStr("")),
                Get(b.data.target_keywords, JList("[]")), rep)

\* the response as a function of the request, the agent handle and the answer
ExpectedResponse(ep, b, rep) ==
    IF HandlerRoute(ep, b).do = "respond" THEN HandlerRoute(ep, b).resp
    ELSE Response(200, HandlerResult(ep, b, rep))

AgentEntered ==
    \/ calls = 1
    \/ endpoint = "get-seo-suggestions" /\ agent /\ body.kind = "object"

\* C16: when the model call raises, each of the four operations returns the
\* failure result success:false, error: the exception message, message: the
\* operation's failure text, and nothing else (no content, no metadata); no
\* exception leaves an operation for any input, so an entered operation always
\* returns a result with a success field and the route answers 200.
C16_RaiseIsCaught ==
    (pc = "done" /\ endpoint \in PostEndpoints /\ AgentEntered)
        => /\ resp.status = 200
           /\ "success" \in DOMAIN resp.body
           /\ reply.kind = "raise" =>
                 /\ DOMAIN resp.body = {"success", "error", "message"}
                 /\ resp.body.success = FALSE
                 /\ resp.body.error = reply.error
                 /\ resp.body.message = route_error(endpoint)

C16_Witness ==
    /\ pc = "done" /\ endpoint = "generate-variations" /\ calls = 1
    /\ reply.kind = "raise" /\ reply.error = "429 quota exceeded"
    /\ resp.status = 200 /\ resp.body.success = FALSE

\* C19: the prompt template is the PROMPTS entry keyed content_type, "_",
\* writing_style when there is one and the default entry otherwise; each of
\* the sixteen validated pairs has its own entry, so a generate-content request
\* that reaches the model never uses the default template.
C19_TemplateIsSpecific ==
    /\ \A ct \in Range(valid_types) \cup {"essay"}, ws \in Range(valid_styles) \cup {"bogus"} :
          prompt_template(ct, ws) =
              IF ct \in Range(valid_types) /\ ws \in Range(valid_styles)
              THEN ct \o "_" \o ws ELSE "default"
    /\ (endpoint = "generate-content" /\ calls = 1)
          => /\ prompt = body.data.content_type.v \o "_" \o body.data.writing_style.v
             /\ prompt \in PROMPTS \ {"default"}

C19_Witness ==
    /\ endpoint = "generate-content" /\ pc = "awaiting" /\ calls = 1
    /\ body.data.content_type = JStr("product") /\ body.data.writing_style = JStr("creative")
    /\ prompt = "product_creative"

====
